---------------------------- MODULE Spec2Model ----------------------------
(***************************************************************************)
(* A model of the logging subsystem of src/src/base/log.cpp: the global   *)
(* registry (global_logger, scope_logger, in_logger, log_log_impl), the    *)
(* collection sink, the asynchronous stream sink and the deferred sink     *)
(* (CFutureLogger).  Each subsystem has its own specification over the     *)
(* shared variables; a specification leaves the variables of the other     *)
(* subsystems unchanged.                                                   *)
(***************************************************************************)
EXTENDS Integers, Sequences, FiniteSets, TLC

(* ------------------------------ bounds -------------------------------- *)
NThreads == 2
MaxRecords == 2
MaxSetCalls == 2
MaxFinishCalls == 1
MaxDepth == 2
MaxScopeCalls == 2
LineCap == 10
MaxMsgLen == 3
MaxOverRead == 1
MaxFmtRecords == 2
MaxFairRecords == 1

NChildren == 2

Threads == 1..NThreads
SinkNames == <<"A", "B", "C", "D">>
\* The sinks a caller can pass to Set, log_set_global_logger and
\* log_set_scope_logger, and all leaf sinks (with the collection's children).
Loggers == {SinkNames[1], SinkNames[2]}
Sinks == Loggers \cup {SinkNames[i] : i \in 1..NChildren}
null == "null"
free == {}

VARIABLES
  pc,             \* per thread: the statement the thread is at ("idle": no call in progress)
  observed,       \* per leaf sink: the records its Log received, in order
  finished,       \* per leaf sink: the number of GlobalFinish calls it received
  crashed,        \* a fatal dbg_assert was reached: the process is gone
  issued,         \* history: issued[r] is the thread that passed record r to Log
  m_pLogger,      \* CFutureLogger::m_pLogger (std::atomic<ILogger *>)
  m_aPending,     \* CFutureLogger::m_aPending
  m_PendingLock,  \* CFutureLogger::m_PendingLock: the holder, or free
  fLocal,         \* per thread: the locals of the CFutureLogger call in progress
  fHist,          \* history of the CFutureLogger calls
  cLocal,         \* per thread: the locals of the CLoggerCollection call in progress
  cHist,          \* history of the CLoggerCollection calls
  aio,            \* the ASYNCIO of the CLoggerAsync: lock, write queue, worker
  stream,         \* what the worker has written to the backing stream
  aConf,          \* CLoggerAsync::m_AnsiTruecolor and m_Close
  aLocal,         \* per thread: the locals of the CLoggerAsync call in progress
  aHist,          \* history of the CLoggerAsync calls
  global_logger,  \* std::atomic<ILogger *> global_logger
  scope_logger,   \* thread_local ILogger *scope_logger
  in_logger,      \* thread_local bool in_logger
  stack,          \* per thread: the log_log_impl activations that are inside scope_logger->Log
  env,            \* the build (CONF_FAMILY_WINDOWS) and the exit hooks registered with atexit
  rHist           \* history of the registry calls

sharedVars == <<pc, observed, finished, crashed, issued>>
futureVars == <<m_pLogger, m_aPending, m_PendingLock, fLocal, fHist>>
collVars == <<cLocal, cHist>>
asyncVars == <<aio, stream, aConf, aLocal, aHist>>
regVars == <<global_logger, scope_logger, in_logger, stack, env, rHist>>
vars == <<sharedVars, futureVars, collVars, asyncVars, regVars>>
notFuture == <<collVars, asyncVars, regVars>>
notColl == <<futureVars, asyncVars, regVars>>
notAsync == <<futureVars, collVars, regVars>>
notReg == <<futureVars, collVars, asyncVars>>

(* ------------------------------ helpers ------------------------------- *)
Idle(t) == pc[t] = "idle"
AllIdle == \A t \in Threads : Idle(t)
Range(s) == {s[i] : i \in 1..Len(s)}
Count(x, s) == Cardinality({i \in 1..Len(s) : s[i] = x})
SeqUpTo(n) == [i \in 1..n |-> i]

\* A leaf sink's Log: the sink appends the record to what it has seen.
SinkLog(obs, s, r) == [obs EXCEPT ![s] = Append(@, r)]
\* A leaf sink's GlobalFinish.
SinkFinish(fin, s) == [fin EXCEPT ![s] = @ + 1]

\* std::atomic<T>::compare_exchange_strong(expected, desired): the value
\* stored afterwards, and whether the exchange happened.
CasValueStore(cur, expected, desired) == desired
CasValue(cur, expected, desired) == IF cur = expected THEN desired ELSE cur
CasOk(cur, expected) == cur = expected

\* dbg_assert(test, msg): a failed assertion is fatal, the process terminates.
dbg_assert(dead, test) == dead \/ ~test

SharedInit ==
  /\ pc = [t \in Threads |-> "idle"]
  /\ observed = [s \in Sinks |-> <<>>]
  /\ finished = [s \in Sinks |-> 0]
  /\ crashed = FALSE
  /\ issued = <<>>

(* ======================= CFutureLogger (deferred sink) ================= *)
NoLocal == [rec |-> 0, logger |-> null, idx |-> 0]
FutureInit ==
  /\ m_pLogger = null
  /\ m_aPending = <<>>
  /\ m_PendingLock = free
  /\ fLocal = [t \in Threads |-> NoLocal]
  /\ fHist = [overlap |-> FALSE, setCalls |-> 0, setReturned |-> 0,
              kBefore |-> 0, setArgs |-> <<>>, failedSet |-> null,
              finishCalls |-> 0, finishAttached |-> 0]

\* A call starting while another call is in progress overlaps it.
Overlaps(t) == \E u \in Threads \ {t} : ~Idle(u)

\* CFutureLogger::Log, line 400: the load of m_pLogger and the branch on it.
FutureLog_Load(t) ==
  /\ ~crashed /\ Idle(t) /\ Len(issued) < MaxRecords
  /\ issued' = Append(issued, t)
  /\ fLocal' = [fLocal EXCEPT ![t] = [rec |-> Len(issued) + 1, logger |-> m_pLogger, idx |-> 0]]
  /\ pc' = [pc EXCEPT ![t] = IF m_pLogger # null THEN "log_forward" ELSE "log_lock"]
  /\ fHist' = [fHist EXCEPT !.overlap = @ \/ Overlaps(t)]
  /\ UNCHANGED <<observed, finished, crashed, m_pLogger, m_aPending, m_PendingLock, notFuture>>

\* line 403: pLogger->Log(pMessage); return.
FutureLog_Forward(t) ==
  /\ ~crashed /\ pc[t] = "log_forward"
  /\ observed' = SinkLog(observed, fLocal[t].logger, fLocal[t].rec)
  /\ pc' = [pc EXCEPT ![t] = "idle"]
  /\ fLocal' = [fLocal EXCEPT ![t] = NoLocal]
  /\ UNCHANGED <<finished, crashed, issued, m_pLogger, m_aPending, m_PendingLock, fHist, notFuture>>

\* line 406: m_PendingLock.lock().
FutureLog_Lock(t) ==
  /\ ~crashed /\ pc[t] = "log_lock" /\ m_PendingLock = free
  /\ m_PendingLock' = {t}
  /\ pc' = [pc EXCEPT ![t] = "log_push"]
  /\ UNCHANGED <<observed, finished, crashed, issued, m_pLogger, m_aPending, fLocal, fHist, notFuture>>

\* line 407: m_aPending.push_back(*pMessage).
FutureLog_Push(t) ==
  /\ ~crashed /\ pc[t] = "log_push"
  /\ m_aPending' = Append(m_aPending, fLocal[t].rec)
  /\ pc' = [pc EXCEPT ![t] = "log_unlock"]
  /\ UNCHANGED <<observed, finished, crashed, issued, m_pLogger, m_PendingLock, fLocal, fHist, notFuture>>

\* line 408: m_PendingLock.unlock(); return.
FutureLog_Unlock(t) ==
  /\ ~crashed /\ pc[t] = "log_unlock"
  /\ m_PendingLock' = free
  /\ pc' = [pc EXCEPT ![t] = "idle"]
  /\ fLocal' = [fLocal EXCEPT ![t] = NoLocal]
  /\ UNCHANGED <<observed, finished, crashed, issued, m_pLogger, m_aPending, fHist, notFuture>>

\* CFutureLogger::Set is called with a sink that no earlier Set was given
\* (the argument is a std::unique_ptr): the n-th call passes the n-th sink.
NewSink(n) == SinkNames[n + 1]
FutureSet_Call(t) ==
  /\ ~crashed /\ Idle(t) /\ fHist.setCalls < MaxSetCalls
  /\ NewSink(fHist.setCalls) \in Loggers
  /\ fLocal' = [fLocal EXCEPT ![t] = [rec |-> 0, logger |-> NewSink(fHist.setCalls), idx |-> 0]]
  /\ pc' = [pc EXCEPT ![t] = "set_lock"]
  /\ fHist' = [fHist EXCEPT !.overlap = @ \/ Overlaps(t),
                            !.setCalls = @ + 1,
                            !.setArgs = Append(@, NewSink(fHist.setCalls)),
                            !.kBefore = IF fHist.setCalls = 0 THEN Len(issued) ELSE @]
  /\ UNCHANGED <<observed, finished, crashed, issued, m_pLogger, m_aPending, m_PendingLock, notFuture>>

\* line 383: m_PendingLock.lock().
FutureSet_Lock(t) ==
  /\ ~crashed /\ pc[t] = "set_lock" /\ m_PendingLock = free
  /\ m_PendingLock' = {t}
  /\ pc' = [pc EXCEPT ![t] = "set_cas"]
  /\ UNCHANGED <<observed, finished, crashed, issued, m_pLogger, m_aPending, fLocal, fHist, notFuture>>

FutureSet_Store(t) ==
  /\ ~crashed /\ pc[t] = "set_cas"
  /\ m_pLogger' = fLocal[t].logger
  /\ pc' = [pc EXCEPT ![t] = "set_replay"]
  /\ fLocal' = [fLocal EXCEPT ![t].idx = 1]
  /\ UNCHANGED <<observed, finished, crashed, issued, m_aPending, m_PendingLock, fHist, notFuture>>

\* lines 385-388: the compare_exchange_strong and the dbg_assert on its failure.
FutureSet_Cas(t) ==
  /\ ~crashed /\ pc[t] = "set_cas"
  /\ m_pLogger' = CasValue(m_pLogger, null, fLocal[t].logger)
  /\ IF CasOk(m_pLogger, null)
       THEN /\ pc' = [pc EXCEPT ![t] = "set_replay"]
            /\ fLocal' = [fLocal EXCEPT ![t].idx = 1]
            /\ UNCHANGED <<crashed, fHist>>
       ELSE /\ crashed' = dbg_assert(crashed, FALSE)
            /\ fHist' = [fHist EXCEPT !.failedSet = fLocal[t].logger]
            /\ UNCHANGED <<pc, fLocal>>
  /\ UNCHANGED <<observed, finished, issued, m_aPending, m_PendingLock, notFuture>>

\* line 389: the element of m_aPending the iteration idx of the loop visits.
PendingAtReversed(idx) == m_aPending[Len(m_aPending) + 1 - idx]
PendingAt(idx) == m_aPending[idx]

\* lines 389-392: one iteration of the replay loop.
FutureSet_Replay(t) ==
  /\ ~crashed /\ pc[t] = "set_replay" /\ fLocal[t].idx <= Len(m_aPending)
  /\ observed' = SinkLog(observed, fLocal[t].logger, PendingAt(fLocal[t].idx))
  /\ fLocal' = [fLocal EXCEPT ![t].idx = @ + 1]
  /\ UNCHANGED <<pc, finished, crashed, issued, m_pLogger, m_aPending, m_PendingLock, fHist, notFuture>>

\* lines 393-394: the loop is over; m_aPending.clear(); shrink_to_fit().
FutureSet_Clear(t) ==
  /\ ~crashed /\ pc[t] = "set_replay" /\ fLocal[t].idx > Len(m_aPending)
  /\ m_aPending' = <<>>
  /\ pc' = [pc EXCEPT ![t] = "set_unlock"]
  /\ UNCHANGED <<observed, finished, crashed, issued, m_pLogger, m_PendingLock, fLocal, fHist, notFuture>>

\* line 395: m_PendingLock.unlock(); return.
FutureSet_Unlock(t) ==
  /\ ~crashed /\ pc[t] = "set_unlock"
  /\ m_PendingLock' = free
  /\ pc' = [pc EXCEPT ![t] = "idle"]
  /\ fLocal' = [fLocal EXCEPT ![t] = NoLocal]
  /\ fHist' = [fHist EXCEPT !.setReturned = @ + 1]
  /\ UNCHANGED <<observed, finished, crashed, issued, m_pLogger, m_aPending, notFuture>>

\* CFutureLogger::GlobalFinish, line 413: the load of m_pLogger; the
\* history counts the calls that find a sink attached.
FutureFinish_Load(t) ==
  /\ ~crashed /\ Idle(t) /\ fHist.finishCalls < MaxFinishCalls
  /\ fLocal' = [fLocal EXCEPT ![t] = [rec |-> 0, logger |-> m_pLogger, idx |-> 0]]
  /\ pc' = [pc EXCEPT ![t] = "finish_test"]
  /\ fHist' = [fHist EXCEPT !.finishCalls = @ + 1,
                            !.finishAttached = IF m_pLogger # null THEN @ + 1 ELSE @]
  /\ UNCHANGED <<observed, finished, crashed, issued, m_pLogger, m_aPending, m_PendingLock, notFuture>>

FutureFinish_CallNoForward(t) ==
  /\ ~crashed /\ pc[t] = "finish_test"
  /\ pc' = [pc EXCEPT ![t] = "idle"]
  /\ fLocal' = [fLocal EXCEPT ![t] = NoLocal]
  /\ UNCHANGED <<observed, finished, crashed, issued, m_pLogger, m_aPending, m_PendingLock, fHist, notFuture>>

\* lines 414-417: if(pLogger) pLogger->GlobalFinish(); return.
FutureFinish_Call(t) ==
  /\ ~crashed /\ pc[t] = "finish_test"
  /\ finished' = IF fLocal[t].logger # null THEN SinkFinish(finished, fLocal[t].logger) ELSE finished
  /\ pc' = [pc EXCEPT ![t] = "idle"]
  /\ fLocal' = [fLocal EXCEPT ![t] = NoLocal]
  /\ UNCHANGED <<observed, crashed, issued, m_pLogger, m_aPending, m_PendingLock, fHist, notFuture>>

FutureNext ==
  \/ \E t \in Threads : FutureLog_Load(t)
  \/ \E t \in Threads : FutureLog_Forward(t)
  \/ \E t \in Threads : FutureLog_Lock(t)
  \/ \E t \in Threads : FutureLog_Push(t)
  \/ \E t \in Threads : FutureLog_Unlock(t)
  \/ \E t \in Threads : FutureSet_Call(t)
  \/ \E t \in Threads : FutureSet_Lock(t)
  \/ \E t \in Threads : FutureSet_Cas(t)
  \/ \E t \in Threads : FutureSet_Replay(t)
  \/ \E t \in Threads : FutureSet_Clear(t)
  \/ \E t \in Threads : FutureSet_Unlock(t)
  \/ \E t \in Threads : FutureFinish_Load(t)
  \/ \E t \in Threads : FutureFinish_Call(t)

(* ======================= CLoggerCollection ============================= *)
\* CLoggerCollection::m_apLoggers, moved in by the constructor: the children
\* in registration order.
m_apLoggers == SubSeq(SinkNames, 1, NChildren)

CollInit ==
  /\ cLocal = [t \in Threads |-> [rec |-> 0, idx |-> 0]]
  /\ cHist = [returned |-> {}, before |-> {}, overlap |-> FALSE,
              finishCalls |-> 0, finishReturned |-> 0]

\* The range-based for loops of Log and GlobalFinish: the child the
\* iteration idx visits, and the end of the loop.
CollChildAtReversed(idx) == m_apLoggers[Len(m_apLoggers) + 1 - idx]
CollChildAt(idx) == m_apLoggers[idx]
CollLoopDoneEarly(idx) == idx >= Len(m_apLoggers)
CollLoopDone(idx) == idx > Len(m_apLoggers)

\* CLoggerCollection::Log is called with a new record.
CollLog_Call(t) ==
  /\ ~crashed /\ Idle(t) /\ Len(issued) < MaxRecords
  /\ issued' = Append(issued, t)
  /\ cLocal' = [cLocal EXCEPT ![t] = [rec |-> Len(issued) + 1, idx |-> 1]]
  /\ pc' = [pc EXCEPT ![t] = "coll_log"]
  /\ cHist' = [cHist EXCEPT !.before = @ \cup {<<r1, Len(issued) + 1>> : r1 \in cHist.returned},
                           !.overlap = @ \/ Overlaps(t)]
  /\ UNCHANGED <<observed, finished, crashed, notColl>>

\* lines 184-187: one iteration, pLogger->Log(pMessage).
CollLog_Child(t) ==
  /\ ~crashed /\ pc[t] = "coll_log" /\ ~CollLoopDone(cLocal[t].idx)
  /\ observed' = SinkLog(observed, CollChildAt(cLocal[t].idx), cLocal[t].rec)
  /\ cLocal' = [cLocal EXCEPT ![t].idx = @ + 1]
  /\ UNCHANGED <<pc, finished, crashed, issued, cHist, notColl>>

\* line 188: the loop is over, Log returns.
CollLog_Return(t) ==
  /\ ~crashed /\ pc[t] = "coll_log" /\ CollLoopDone(cLocal[t].idx)
  /\ pc' = [pc EXCEPT ![t] = "idle"]
  /\ cHist' = [cHist EXCEPT !.returned = @ \cup {cLocal[t].rec}]
  /\ cLocal' = [cLocal EXCEPT ![t] = [rec |-> 0, idx |-> 0]]
  /\ UNCHANGED <<observed, finished, crashed, issued, notColl>>

\* CLoggerCollection::GlobalFinish is called.
CollFinish_Call(t) ==
  /\ ~crashed /\ Idle(t) /\ cHist.finishCalls < MaxFinishCalls
  /\ cLocal' = [cLocal EXCEPT ![t] = [rec |-> 0, idx |-> 1]]
  /\ pc' = [pc EXCEPT ![t] = "coll_finish"]
  /\ cHist' = [cHist EXCEPT !.finishCalls = @ + 1]
  /\ UNCHANGED <<observed, finished, crashed, issued, notColl>>

\* lines 191-194: one iteration, pLogger->GlobalFinish().
CollFinish_Child(t) ==
  /\ ~crashed /\ pc[t] = "coll_finish" /\ ~CollLoopDone(cLocal[t].idx)
  /\ finished' = SinkFinish(finished, CollChildAt(cLocal[t].idx))
  /\ cLocal' = [cLocal EXCEPT ![t].idx = @ + 1]
  /\ UNCHANGED <<pc, observed, crashed, issued, cHist, notColl>>

\* line 195: the loop is over, GlobalFinish returns.
CollFinish_Return(t) ==
  /\ ~crashed /\ pc[t] = "coll_finish" /\ CollLoopDone(cLocal[t].idx)
  /\ pc' = [pc EXCEPT ![t] = "idle"]
  /\ cHist' = [cHist EXCEPT !.finishReturned = @ + 1]
  /\ cLocal' = [cLocal EXCEPT ![t] = [rec |-> 0, idx |-> 0]]
  /\ UNCHANGED <<observed, finished, crashed, issued, notColl>>

CollNext ==
  \/ \E t \in Threads : CollLog_Call(t)
  \/ \E t \in Threads : CollLog_Child(t)
  \/ \E t \in Threads : CollLog_Return(t)
  \/ \E t \in Threads : CollFinish_Call(t)
  \/ \E t \in Threads : CollFinish_Child(t)
  \/ \E t \in Threads : CollFinish_Return(t)

(* ======================= CLoggerAsync (asynchronous stream sink) ======= *)
\* The ASYNCIO behind the sink: a lock, a write queue and a worker that
\* writes the queue to the backing stream.
aio_new == [lock |-> free, queue |-> <<>>, taken |-> 0, finish |-> "running",
            done |-> FALSE, closed |-> FALSE]
aio_lock(a, t) == [a EXCEPT !.lock = {t}]
aio_unlock(a) == [a EXCEPT !.lock = free]
aio_write_unlocked(a, chunk) == [a EXCEPT !.queue = Append(@, chunk)]
aio_write_newline_unlocked(a) == aio_write_unlocked(a, <<"nl", 10>>)
aio_close(a) == [a EXCEPT !.finish = "close"]
aio_wait_begin(a) == [a EXCEPT !.finish = IF @ = "running" THEN "exit" ELSE @]

\* The constructor, lines 210-215; log_logger_file builds (false, true),
\* log_logger_stdout (NO_COLOR unset, false).
AsyncInit ==
  /\ aio = aio_new
  /\ stream = <<>>
  /\ aConf \in [m_AnsiTruecolor : BOOLEAN, m_Close : BOOLEAN]
  /\ aLocal = [t \in Threads |-> [rec |-> 0, haveColor |-> FALSE]]
  /\ aHist = [color |-> <<>>, returned |-> {}, late |-> FALSE,
              finishCalls |-> 0, finishReturned |-> FALSE, atFinish |-> {},
              lockOrder |-> <<>>]

\* lines 223-234: the escape sequence written before the line.
AnsiChunk(haveColor) == <<"ansi", IF haveColor THEN 38 ELSE 39>>
LineChunk(r) == <<"line", r>>

\* CLoggerAsync::Log is called with a new record.
AsyncLog_Call(t, hc) ==
  /\ ~crashed /\ Idle(t) /\ Len(issued) < MaxRecords
  /\ issued' = Append(issued, t)
  /\ aLocal' = [aLocal EXCEPT ![t] = [rec |-> Len(issued) + 1, haveColor |-> hc]]
  /\ pc' = [pc EXCEPT ![t] = "alog_lock"]
  /\ aHist' = [aHist EXCEPT !.color = Append(@, hc),
                           !.late = @ \/ (aHist.finishCalls > 0)]
  /\ UNCHANGED <<observed, finished, crashed, aio, stream, aConf, notAsync>>

AsyncLog_LockNoWait(t) ==
  /\ ~crashed /\ pc[t] = "alog_lock"
  /\ aio' = aio_lock(aio, t)
  /\ pc' = [pc EXCEPT ![t] = "alog_ansi"]
  /\ aHist' = [aHist EXCEPT !.lockOrder = Append(@, aLocal[t].rec)]
  /\ UNCHANGED <<observed, finished, crashed, issued, stream, aConf, aLocal, notAsync>>

\* line 218: aio_lock(m_pAio); the history keeps the order in which the
\* Log calls got the lock.
AsyncLog_Lock(t) ==
  /\ ~crashed /\ pc[t] = "alog_lock" /\ aio.lock = free
  /\ aio' = aio_lock(aio, t)
  /\ pc' = [pc EXCEPT ![t] = "alog_ansi"]
  /\ aHist' = [aHist EXCEPT !.lockOrder = Append(@, aLocal[t].rec)]
  /\ UNCHANGED <<observed, finished, crashed, issued, stream, aConf, aLocal, notAsync>>

\* lines 219-236: with m_AnsiTruecolor, the escape sequence is written.
AsyncLog_Ansi(t) ==
  /\ ~crashed /\ pc[t] = "alog_ansi"
  /\ aio' = IF aConf.m_AnsiTruecolor
              THEN aio_write_unlocked(aio, AnsiChunk(aLocal[t].haveColor))
              ELSE aio
  /\ pc' = [pc EXCEPT ![t] = "alog_line"]
  /\ UNCHANGED <<observed, finished, crashed, issued, stream, aConf, aLocal, aHist, notAsync>>

AsyncLog_LineUnlocked(t) ==
  /\ ~crashed /\ pc[t] = "alog_line"
  /\ aio' = aio_unlock(aio_write_unlocked(aio, LineChunk(aLocal[t].rec)))
  /\ pc' = [pc EXCEPT ![t] = "alog_nl"]
  /\ UNCHANGED <<observed, finished, crashed, issued, stream, aConf, aLocal, aHist, notAsync>>

\* line 237: aio_write_unlocked(m_pAio, pMessage->m_aLine, pMessage->m_LineLength).
AsyncLog_Line(t) ==
  /\ ~crashed /\ pc[t] = "alog_line"
  /\ aio' = aio_write_unlocked(aio, LineChunk(aLocal[t].rec))
  /\ pc' = [pc EXCEPT ![t] = "alog_nl"]
  /\ UNCHANGED <<observed, finished, crashed, issued, stream, aConf, aLocal, aHist, notAsync>>

\* line 238: aio_write_newline_unlocked(m_pAio).
AsyncLog_Newline(t) ==
  /\ ~crashed /\ pc[t] = "alog_nl"
  /\ aio' = aio_write_newline_unlocked(aio)
  /\ pc' = [pc EXCEPT ![t] = "alog_unlock"]
  /\ UNCHANGED <<observed, finished, crashed, issued, stream, aConf, aLocal, aHist, notAsync>>

\* line 239: aio_unlock(m_pAio); return.
AsyncLog_Unlock(t) ==
  /\ ~crashed /\ pc[t] = "alog_unlock"
  /\ aio' = aio_unlock(aio)
  /\ pc' = [pc EXCEPT ![t] = "idle"]
  /\ aHist' = [aHist EXCEPT !.returned = @ \cup {aLocal[t].rec}]
  /\ aLocal' = [aLocal EXCEPT ![t] = [rec |-> 0, haveColor |-> FALSE]]
  /\ UNCHANGED <<observed, finished, crashed, issued, stream, aConf, notAsync>>

\* CLoggerAsync::GlobalFinish is called (once per process, at shutdown).
AsyncFinish_Call(t) ==
  /\ ~crashed /\ Idle(t) /\ aHist.finishCalls = 0
  /\ pc' = [pc EXCEPT ![t] = "afin_close"]
  /\ aHist' = [aHist EXCEPT !.finishCalls = @ + 1,
                           !.late = @ \/ Overlaps(t),
                           !.atFinish = aHist.returned]
  /\ UNCHANGED <<observed, finished, crashed, issued, aio, stream, aConf, aLocal, notAsync>>

AsyncFinish_CloseSkipped(t) ==
  /\ ~crashed /\ pc[t] = "afin_close"
  /\ pc' = [pc EXCEPT ![t] = "afin_wait"]
  /\ UNCHANGED <<observed, finished, crashed, issued, aio, stream, aConf, aLocal, aHist, notAsync>>

\* lines 252-255: if(m_Close) aio_close(m_pAio), which takes the lock.
AsyncFinish_Close(t) ==
  /\ ~crashed /\ pc[t] = "afin_close"
  /\ aConf.m_Close => aio.lock = free
  /\ aio' = IF aConf.m_Close THEN aio_close(aio) ELSE aio
  /\ pc' = [pc EXCEPT ![t] = "afin_wait"]
  /\ UNCHANGED <<observed, finished, crashed, issued, stream, aConf, aLocal, aHist, notAsync>>

\* line 256: aio_wait(m_pAio) asks the worker, under the lock, to exit.
AsyncFinish_Wait(t) ==
  /\ ~crashed /\ pc[t] = "afin_wait" /\ aio.lock = free
  /\ aio' = aio_wait_begin(aio)
  /\ pc' = [pc EXCEPT ![t] = "afin_join"]
  /\ UNCHANGED <<observed, finished, crashed, issued, stream, aConf, aLocal, aHist, notAsync>>

\* line 256: aio_wait returns when the worker has exited.
AsyncFinish_Join(t) ==
  /\ ~crashed /\ pc[t] = "afin_join" /\ aio.done
  /\ pc' = [pc EXCEPT ![t] = "idle"]
  /\ aHist' = [aHist EXCEPT !.finishReturned = TRUE]
  /\ UNCHANGED <<observed, finished, crashed, issued, aio, stream, aConf, aLocal, notAsync>>

\* The worker looks, under the lock, at what the queue holds.
AsyncWorker_Take ==
  /\ ~crashed /\ ~aio.done /\ aio.lock = free
  /\ aio.taken = 0 /\ Len(aio.queue) > 0
  /\ aio' = [aio EXCEPT !.taken = Len(aio.queue)]
  /\ UNCHANGED <<sharedVars, stream, aConf, aLocal, aHist, notAsync>>

\* The worker writes what it took to the stream and, under the lock,
\* removes it from the queue.
AsyncWorker_Write ==
  /\ ~crashed /\ ~aio.done /\ aio.lock = free
  /\ aio.taken > 0
  /\ stream' = stream \o SubSeq(aio.queue, 1, aio.taken)
  /\ aio' = [aio EXCEPT !.queue = SubSeq(@, aio.taken + 1, Len(@)), !.taken = 0]
  /\ UNCHANGED <<sharedVars, aConf, aLocal, aHist, notAsync>>

\* The worker finds the queue empty and a finish requested: it closes the
\* stream if asked to and exits.
AsyncWorker_Exit ==
  /\ ~crashed /\ ~aio.done /\ aio.lock = free
  /\ aio.taken = 0 /\ Len(aio.queue) = 0 /\ aio.finish # "running"
  /\ aio' = [aio EXCEPT !.done = TRUE, !.closed = (aio.finish = "close")]
  /\ UNCHANGED <<sharedVars, stream, aConf, aLocal, aHist, notAsync>>

\* The steps of a CLoggerAsync call in progress on thread t: a thread
\* inside Log or GlobalFinish keeps running.
AsyncThreadStep(t) ==
  \/ AsyncLog_Lock(t) \/ AsyncLog_Ansi(t) \/ AsyncLog_Line(t)
  \/ AsyncLog_Newline(t) \/ AsyncLog_Unlock(t)
  \/ AsyncFinish_Close(t) \/ AsyncFinish_Wait(t) \/ AsyncFinish_Join(t)
\* The steps of the worker thread.
AsyncWorkerStep == AsyncWorker_Take \/ AsyncWorker_Write \/ AsyncWorker_Exit

AsyncNext ==
  \/ \E t \in Threads, hc \in BOOLEAN : AsyncLog_Call(t, hc)
  \/ \E t \in Threads : AsyncLog_Lock(t)
  \/ \E t \in Threads : AsyncLog_Ansi(t)
  \/ \E t \in Threads : AsyncLog_Line(t)
  \/ \E t \in Threads : AsyncLog_Newline(t)
  \/ \E t \in Threads : AsyncLog_Unlock(t)
  \/ \E t \in Threads : AsyncFinish_Call(t)
  \/ \E t \in Threads : AsyncFinish_Close(t)
  \/ \E t \in Threads : AsyncFinish_Wait(t)
  \/ \E t \in Threads : AsyncFinish_Join(t)
  \/ AsyncWorker_Take
  \/ AsyncWorker_Write
  \/ AsyncWorker_Exit

\* The asynchronous sink with at most MaxFairRecords Log calls.
AsyncFairNext ==
  \/ \E t \in Threads, hc \in BOOLEAN : Len(issued) < MaxFairRecords /\ AsyncLog_Call(t, hc)
  \/ \E t \in Threads : AsyncLog_Lock(t)
  \/ \E t \in Threads : AsyncLog_Ansi(t)
  \/ \E t \in Threads : AsyncLog_Line(t)
  \/ \E t \in Threads : AsyncLog_Newline(t)
  \/ \E t \in Threads : AsyncLog_Unlock(t)
  \/ \E t \in Threads : AsyncFinish_Call(t)
  \/ \E t \in Threads : AsyncFinish_Close(t)
  \/ \E t \in Threads : AsyncFinish_Wait(t)
  \/ \E t \in Threads : AsyncFinish_Join(t)
  \/ AsyncWorker_Take
  \/ AsyncWorker_Write
  \/ AsyncWorker_Exit

(* ======================= the global registry =========================== *)
Min(a, b) == IF a < b THEN a ELSE b
Chars == {"a", "b"}
\* The messages (the formatted fmt and args) of length at most n.
Strings(n) == UNION {[1..k -> Chars] : k \in 0..n}
FmtMsgs == Strings(MaxMsgLen)
RegMsgs == {<<"a">>}

\* line 94: str_format(Msg.m_aLine, sizeof(Msg.m_aLine), "[%s][%s]: ", ...),
\* with a one-character timestamp and system.
Prefix == <<"[", "t", "]", "[", "s", "]", ":", " ">>

\* vsnprintf(buf, size, ...): at most size - 1 characters, then the
\* terminating zero.
vsnprintf(size, m) == [bytes |-> SubSeq(m, 1, Min(Len(m), size - 1)), terminated |-> TRUE]
\* _vsnprintf(buf, size, ...): at most size characters, and a terminating
\* zero only if the output is shorter than size.
win_vsnprintf(size, m) == [bytes |-> SubSeq(m, 1, Min(Len(m), size)), terminated |-> Len(m) < size]

\* lines 94-111: the lines (m_aLine up to m_LineLength) the call can
\* build for message m.  Without a terminating zero, str_length(Msg.m_aLine)
\* reads past the end of m_aLine, up to the first zero byte behind it.
LinesOf(windows, m) ==
  LET m_LineMessageOffset == Len(Prefix)
      MessageSize == LineCap - m_LineMessageOffset
      out == IF windows THEN win_vsnprintf(MessageSize, m) ELSE vsnprintf(MessageSize, m)
  IN  IF out.terminated
        THEN {Prefix \o out.bytes}
        ELSE {Prefix \o out.bytes \o [i \in 1..k |-> "?"] : k \in 0..MaxOverRead}

RegInit ==
  /\ global_logger = null
  /\ scope_logger = [t \in Threads |-> null]
  /\ in_logger = [t \in Threads |-> FALSE]
  /\ stack = [t \in Threads |-> <<>>]
  /\ env \in [windows : BOOLEAN, atexit : {0}, hooksLeft : {0}]
  /\ rHist = [override |-> [t \in Threads |-> null],
              expect |-> <<>>, nested |-> {}, hadNested |-> {}, returned |-> {}, msg |-> <<>>,
              setGlobalCalls |-> 0, lostSet |-> {}, scopeCalls |-> 0, hooksRun |-> 0,
              dropped |-> {},
              got |-> [value |-> null, installed |-> FALSE, noOverride |-> FALSE]]

\* lines 74-77 (and 50-53, 60-63): an unset scope_logger is replaced by
\* the global logger.
ResolveNoFallback(scope, global) == scope
Resolve(scope, global) == IF scope = null THEN global ELSE scope

\* lines 74-77: the sink a log call of thread t uses: scope_logger, or
\* with scope_logger unset what global_logger holds at the call.
EffectiveCached(t) == scope_logger[t]
Effective(t) == Resolve(scope_logger[t], global_logger)

\* line 69: the reentrancy guard.
GuardOff(t) == FALSE
Guard(t) == in_logger[t]

\* log_log_impl, lines 66-111, up to the call of scope_logger->Log; a
\* call is made by a thread at top level or from inside a sink's Log.
RegLog_Call(t, m) ==
  /\ ~crashed /\ pc[t] \in {"idle", "in_sink"}
  /\ Len(stack[t]) < MaxDepth /\ Len(issued) < MaxRecords
  /\ LET r == Len(issued) + 1
         sl == Effective(t)
     IN  /\ issued' = Append(issued, t)
         /\ rHist' = [rHist EXCEPT
               !.expect = Append(@, IF rHist.override[t] # null THEN rHist.override[t]
                                   ELSE global_logger),
               !.hadNested = IF stack[t] # <<>> THEN @ \cup {stack[t][Len(stack[t])].id} ELSE @,
               !.msg = Append(@, m),
               !.nested = IF stack[t] # <<>> THEN @ \cup {r} ELSE @,
               !.dropped = IF Guard(t) THEN @ \cup {r} ELSE @,
               !.returned = IF Guard(t) \/ sl = null THEN @ \cup {r} ELSE @]
         /\ IF Guard(t)
              THEN UNCHANGED <<pc, scope_logger, in_logger, stack>>
              ELSE /\ scope_logger' = [scope_logger EXCEPT ![t] = sl]
                   /\ IF sl = null
                        THEN /\ in_logger' = [in_logger EXCEPT ![t] = FALSE]
                             /\ UNCHANGED <<pc, stack>>
                        ELSE /\ in_logger' = [in_logger EXCEPT ![t] = TRUE]
                             /\ pc' = [pc EXCEPT ![t] = "in_sink"]
                             /\ \E line \in LinesOf(env.windows, m) :
                                  stack' = [stack EXCEPT ![t] = Append(@,
                                    [id |-> r, line |-> line, sink |-> sl, seen |-> FALSE])]
  /\ UNCHANGED <<observed, finished, crashed, global_logger, env, notReg>>

\* line 112: the sink called by scope_logger->Log(&Msg) takes the record.
RegLog_Sink(t) ==
  /\ ~crashed /\ pc[t] = "in_sink"
  /\ LET f == stack[t][Len(stack[t])]
     IN  /\ ~f.seen
         /\ observed' = SinkLog(observed, f.sink, [id |-> f.id, line |-> f.line])
         /\ stack' = [stack EXCEPT ![t][Len(stack[t])].seen = TRUE]
  /\ UNCHANGED <<pc, finished, crashed, issued, global_logger, scope_logger, in_logger, env, rHist, notReg>>

RegLog_ReturnKeepFlag(t) ==
  /\ ~crashed /\ pc[t] = "in_sink"
  /\ LET f == stack[t][Len(stack[t])]
     IN  /\ f.seen
         /\ rHist' = [rHist EXCEPT !.returned = @ \cup {f.id}]
  /\ stack' = [stack EXCEPT ![t] = SubSeq(@, 1, Len(@) - 1)]
  /\ pc' = [pc EXCEPT ![t] = IF Len(stack[t]) > 1 THEN "in_sink" ELSE "idle"]
  /\ UNCHANGED <<observed, finished, crashed, issued, global_logger, scope_logger, in_logger, env, notReg>>

\* lines 112-113: the sink's Log returns; in_logger = false.
RegLog_Return(t) ==
  /\ ~crashed /\ pc[t] = "in_sink"
  /\ LET f == stack[t][Len(stack[t])]
     IN  /\ f.seen
         /\ rHist' = [rHist EXCEPT !.returned = @ \cup {f.id}]
  /\ stack' = [stack EXCEPT ![t] = SubSeq(@, 1, Len(@) - 1)]
  /\ in_logger' = [in_logger EXCEPT ![t] = FALSE]
  /\ pc' = [pc EXCEPT ![t] = IF Len(stack[t]) > 1 THEN "in_sink" ELSE "idle"]
  /\ UNCHANGED <<observed, finished, crashed, issued, global_logger, scope_logger, env, notReg>>

RegSetScopeShared(t, logger) ==
  /\ ~crashed /\ Idle(t) /\ rHist.scopeCalls < MaxScopeCalls
  /\ scope_logger' = [u \in Threads |-> Resolve(logger, global_logger)]
  /\ rHist' = [rHist EXCEPT !.override[t] = logger,
                           !.scopeCalls = @ + 1]
  /\ UNCHANGED <<sharedVars, global_logger, in_logger, stack, env, notReg>>

RegSetScopeKeep(t, logger) ==
  /\ ~crashed /\ Idle(t) /\ rHist.scopeCalls < MaxScopeCalls
  /\ scope_logger' = [scope_logger EXCEPT ![t] = Resolve(logger, scope_logger[t])]
  /\ rHist' = [rHist EXCEPT !.override[t] = logger,
                           !.scopeCalls = @ + 1]
  /\ UNCHANGED <<sharedVars, global_logger, in_logger, stack, env, notReg>>

\* log_set_scope_logger, lines 57-64.
RegSetScope(t, logger) ==
  /\ ~crashed /\ Idle(t) /\ rHist.scopeCalls < MaxScopeCalls
  /\ scope_logger' = [scope_logger EXCEPT ![t] = Resolve(logger, global_logger)]
  /\ rHist' = [rHist EXCEPT !.override[t] = logger,
                           !.scopeCalls = @ + 1]
  /\ UNCHANGED <<sharedVars, global_logger, in_logger, stack, env, notReg>>

\* log_get_scope_logger, lines 48-55; the history keeps what the last call
\* made with the global sink installed, on a thread without an override,
\* returned.
RegGetScope(t) ==
  /\ ~crashed /\ Idle(t) /\ rHist.scopeCalls < MaxScopeCalls
  /\ scope_logger' = [scope_logger EXCEPT ![t] = Resolve(scope_logger[t], global_logger)]
  /\ rHist' = [rHist EXCEPT !.got = IF global_logger # null /\ rHist.override[t] = null
                                       THEN [value |-> Resolve(scope_logger[t], global_logger),
                                             installed |-> TRUE, noOverride |-> TRUE]
                                       ELSE @,
                           !.scopeCalls = @ + 1]
  /\ UNCHANGED <<sharedVars, global_logger, in_logger, stack, env, notReg>>

\* log_set_global_logger, lines 24-28: the compare_exchange_strong and the
\* dbg_assert on its failure; the n-th call passes the n-th sink.
RegSetGlobal_Cas(t) ==
  /\ ~crashed /\ Idle(t) /\ rHist.setGlobalCalls < MaxSetCalls
  /\ NewSink(rHist.setGlobalCalls) \in Loggers
  /\ global_logger' = CasValue(global_logger, null, NewSink(rHist.setGlobalCalls))
  /\ rHist' = [rHist EXCEPT !.setGlobalCalls = @ + 1,
                           !.lostSet = IF CasOk(global_logger, null) THEN @ ELSE @ \cup {t}]
  /\ IF CasOk(global_logger, null)
       THEN /\ pc' = [pc EXCEPT ![t] = "setglobal_atexit"]
            /\ UNCHANGED crashed
       ELSE /\ crashed' = dbg_assert(crashed, FALSE)
            /\ UNCHANGED pc
  /\ UNCHANGED <<observed, finished, issued, scope_logger, in_logger, stack, env, notReg>>

\* line 29: atexit(log_global_logger_finish).
RegSetGlobal_Atexit(t) ==
  /\ ~crashed /\ pc[t] = "setglobal_atexit"
  /\ env' = [env EXCEPT !.atexit = @ + 1]
  /\ pc' = [pc EXCEPT ![t] = "idle"]
  /\ UNCHANGED <<observed, finished, crashed, issued, global_logger, scope_logger, in_logger, stack, rHist, notReg>>

\* Normal process exit, with no call in progress on any thread: the
\* threads are gone and the C runtime runs the hooks registered with atexit
\* (line 29).
RegExit_Call ==
  /\ ~crashed /\ AllIdle
  /\ pc' = [u \in Threads |-> "exited"]
  /\ env' = [env EXCEPT !.hooksLeft = env.atexit]
  /\ UNCHANGED <<observed, finished, crashed, issued, global_logger, scope_logger, in_logger, stack, rHist, notReg>>

Exiting == \A t \in Threads : pc[t] = "exited"

RegExit_HookNoFinish ==
  /\ ~crashed /\ Exiting /\ env.hooksLeft > 0
  /\ env' = [env EXCEPT !.hooksLeft = @ - 1]
  /\ rHist' = [rHist EXCEPT !.hooksRun = @ + 1]
  /\ UNCHANGED <<pc, observed, finished, crashed, issued, global_logger, scope_logger, in_logger, stack, notReg>>

\* log_global_logger_finish, lines 32-35, run as an exit hook:
\* global_logger.load()->GlobalFinish().  The call through an unset
\* pointer is undefined behaviour.
RegExit_Hook ==
  /\ ~crashed /\ Exiting /\ env.hooksLeft > 0
  /\ env' = [env EXCEPT !.hooksLeft = @ - 1]
  /\ rHist' = [rHist EXCEPT !.hooksRun = @ + 1]
  /\ IF global_logger # null
       THEN /\ finished' = SinkFinish(finished, global_logger)
            /\ UNCHANGED crashed
       ELSE /\ \E dead \in BOOLEAN : crashed' = dead
            /\ UNCHANGED finished
  /\ UNCHANGED <<pc, observed, issued, global_logger, scope_logger, in_logger, stack, notReg>>

RegNext ==
  \/ \E t \in Threads, m \in RegMsgs : RegLog_Call(t, m)
  \/ \E t \in Threads : RegLog_Sink(t)
  \/ \E t \in Threads : RegLog_Return(t)
  \/ \E t \in Threads, s \in Loggers \cup {null} : RegSetScope(t, s)
  \/ \E t \in Threads : RegGetScope(t)
  \/ \E t \in Threads : RegSetGlobal_Cas(t)
  \/ \E t \in Threads : RegSetGlobal_Atexit(t)
  \/ RegExit_Call
  \/ RegExit_Hook

\* The formatting of one thread's records, with messages of every length
\* up to MaxMsgLen.
FmtNext ==
  \/ \E m \in FmtMsgs : Len(issued) < MaxFmtRecords /\ RegLog_Call(1, m)
  \/ RegLog_Sink(1)
  \/ RegLog_Return(1)
  \/ RegSetGlobal_Cas(1)
  \/ RegSetGlobal_Atexit(1)

(* ======================= the specifications ============================ *)
InitAll == SharedInit /\ FutureInit /\ CollInit /\ AsyncInit /\ RegInit
\* The sinks that are not the asynchronous one do not read its
\* configuration, and the messages of RegMsgs fit the line in both builds.
BaseInit == InitAll /\ ~env.windows /\ ~aConf.m_AnsiTruecolor /\ ~aConf.m_Close
AsyncSpecInit == InitAll /\ ~env.windows
FmtSpecInit == InitAll /\ ~aConf.m_AnsiTruecolor /\ ~aConf.m_Close

\* The deferred sink.
SpecFuture == BaseInit /\ [][FutureNext]_vars
\* The collection sink.
SpecColl == BaseInit /\ [][CollNext]_vars
\* The asynchronous stream sink.
SpecAsync == AsyncSpecInit /\ [][AsyncNext]_vars
\* The asynchronous stream sink with the worker thread and the threads
\* inside a call scheduled fairly.
AsyncFairness ==
  /\ WF_vars(AsyncWorkerStep)
  /\ \A t \in Threads : WF_vars(AsyncThreadStep(t))
SpecAsyncFair == AsyncSpecInit /\ [][AsyncFairNext]_vars /\ AsyncFairness
\* The global registry.
SpecReg == BaseInit /\ [][RegNext]_vars
\* The formatting of the record, in both builds.
SpecFmt == FmtSpecInit /\ [][FmtNext]_vars

(* ======================= the claims ==================================== *)
Pos(x, s) == CHOOSE i \in 1..Len(s) : s[i] = x

\* C1: when no two calls overlap, k records passed to CFutureLogger::Log
\* before Set(real) and m records passed after Set returned reach the real
\* sink as exactly k+m Log calls: the k buffered records in their arrival
\* order, then the m forwarded records in their emission order.  (Records
\* are numbered in the order of their Log calls.)
C1_SequentialOrder ==
  (~fHist.overlap /\ AllIdle /\ ~crashed /\ fHist.setReturned = 1) =>
     /\ m_pLogger = fHist.setArgs[1]
     /\ observed[m_pLogger] = SeqUpTo(Len(issued))
     /\ SubSeq(observed[m_pLogger], 1, fHist.kBefore) = SeqUpTo(fHist.kBefore)
     /\ m_aPending = <<>>

\* C1's case: Set has returned with a record buffered before it and a
\* record forwarded after it, in calls that never overlapped.
C1_Witness ==
  /\ ~fHist.overlap /\ AllIdle /\ ~crashed /\ fHist.setReturned = 1
  /\ fHist.kBefore >= 1 /\ Len(issued) > fHist.kBefore

\* C2: for every interleaving of Log calls with a single Set call, once
\* Set and all Log calls have returned every record passed to Log has been
\* delivered to the attached sink exactly once.
C2_ExactlyOnce ==
  (AllIdle /\ ~crashed /\ fHist.setCalls = 1 /\ fHist.setReturned = 1) =>
     \A r \in 1..Len(issued) : Count(r, observed[m_pLogger]) = 1

\* C9: the attach happens at most once: once m_pLogger is set it never
\* changes; a second Set reaches the fatal assertion and never gets past
\* its compare-exchange; the sink of the failing Set, like every sink that
\* is not the attached one, never receives a record.
C9_AttachOnce ==
  /\ [][m_pLogger # null => m_pLogger' = m_pLogger]_vars
  /\ [](/\ Cardinality({t \in Threads : pc[t] \in {"set_replay", "set_unlock"}})
              + fHist.setReturned <= 1
        /\ (fHist.failedSet # null =>
              /\ crashed
              /\ m_pLogger \in Range(fHist.setArgs) \ {fHist.failedSet})
        /\ \A s \in Sinks : s # m_pLogger => observed[s] = <<>>)

\* C9's case: a second Set has reached the assertion after the first one
\* attached its sink and records were delivered to it.
C9_Witness ==
  /\ crashed /\ fHist.failedSet # null
  /\ Len(observed[m_pLogger]) >= 1

\* C6: one Log call on the collection results in exactly one Log call on
\* every child, made in registration order, and one GlobalFinish call on
\* the collection in exactly one GlobalFinish on every child, in the same
\* order.
C6_Broadcast ==
  /\ \A r \in 1..Len(issued) : \A i \in 1..Len(m_apLoggers) :
        /\ Count(r, observed[m_apLoggers[i]]) <= 1
        /\ r \in cHist.returned => Count(r, observed[m_apLoggers[i]]) = 1
        /\ \A j \in 1..Len(m_apLoggers) :
              (i < j /\ Count(r, observed[m_apLoggers[j]]) = 1)
                 => Count(r, observed[m_apLoggers[i]]) = 1
  /\ \A i \in 1..Len(m_apLoggers) :
        /\ finished[m_apLoggers[i]] <= cHist.finishCalls
        /\ finished[m_apLoggers[i]] >= cHist.finishReturned
        /\ \A j \in 1..Len(m_apLoggers) :
              i < j => finished[m_apLoggers[j]] <= finished[m_apLoggers[i]]
  /\ \A s \in Sinks \ Range(m_apLoggers) : observed[s] = <<>> /\ finished[s] = 0

\* C6's case: a Log call and a GlobalFinish call on the collection have
\* both returned.
C6_Witness ==
  /\ AllIdle /\ cHist.returned # {} /\ cHist.finishReturned >= 1
  /\ \A i \in 1..Len(m_apLoggers) : finished[m_apLoggers[i]] >= 1

\* C7 as stated: every child observes the records in the same total
\* order, also for Log calls that several threads make concurrently.
C7_SameOrder ==
  \A a \in Range(m_apLoggers), b \in Range(m_apLoggers) :
    \A r1 \in Range(observed[a]) \cap Range(observed[b]) :
      \A r2 \in Range(observed[a]) \cap Range(observed[b]) :
        (Pos(r1, observed[a]) < Pos(r2, observed[a]))
           <=> (Pos(r1, observed[b]) < Pos(r2, observed[b]))

\* C7, amended: two records whose Log calls on the collection do not
\* overlap (Log(r1) returned before Log(r2) was called, as for two records
\* of one thread) are observed in call order by every child: every child
\* has observed r1, and observes r2 only after it.
C7_NonOverlappingOrder ==
  \A p \in cHist.before : \A c \in Range(m_apLoggers) :
    /\ Count(p[1], observed[c]) = 1
    /\ Count(p[2], observed[c]) = 1
         => Pos(p[1], observed[c]) < Pos(p[2], observed[c])

\* C7's case: two threads have logged, one call after the other had
\* returned, and every child has observed both records.
C7_Witness ==
  \E p \in cHist.before :
    /\ issued[p[1]] # issued[p[2]]
    /\ \A c \in Range(m_apLoggers) : Count(p[2], observed[c]) = 1

\* What the stream holds for record r: the escape sequence (with
\* m_AnsiTruecolor), the line and the newline.
BlockOf(r) ==
  (IF aConf.m_AnsiTruecolor THEN <<AnsiChunk(aHist.color[r])>> ELSE <<>>)
    \o <<LineChunk(r), <<"nl", 10>>>>
RECURSIVE Render(_)
Render(rs) == IF rs = <<>> THEN <<>> ELSE BlockOf(Head(rs)) \o Render(Tail(rs))
IsLine(c) == c[1] = "line"
\* The records whose lines the stream holds, in stream order.
StreamRecords == LET ls == SelectSeq(stream, IsLine) IN [i \in 1..Len(ls) |-> ls[i][2]]

\* C3: when the Log calls of all threads have returned before
\* GlobalFinish is called, then after GlobalFinish returns the stream holds
\* exactly the lines of the records logged: each record once, whole, and
\* the records of each thread in that thread's submission order.
C3_AllLinesWritten ==
  (aHist.finishReturned /\ ~aHist.late) =>
     /\ stream = Render(StreamRecords)
     /\ \A r \in 1..Len(issued) : Count(r, StreamRecords) = 1
     /\ Len(StreamRecords) = Len(issued)
     /\ \A i \in 1..Len(StreamRecords) : \A j \in 1..Len(StreamRecords) :
           (i < j /\ issued[StreamRecords[i]] = issued[StreamRecords[j]])
              => StreamRecords[i] < StreamRecords[j]
     /\ aio.queue = <<>>

\* C3's case: GlobalFinish has returned after the threads logged
\* MaxRecords records concurrently, in the stream in another order than
\* the order of the calls.
C3_Witness ==
  /\ aHist.finishReturned /\ ~aHist.late
  /\ Len(issued) = MaxRecords
  /\ Cardinality(Range(issued)) > 1
  /\ StreamRecords # SeqUpTo(Len(issued))

\* How often sink s has received record r from log_log_impl.
Delivered(r, s) == Cardinality({i \in 1..Len(observed[s]) : observed[s][i].id = r})
\* The log_log_impl call of record r is inside scope_logger->Log.
InSink(r) == \E t \in Threads : \E i \in 1..Len(stack[t]) : stack[t][i].id = r

\* C4: the global sink pointer changes at most once, from unset to the
\* first installed sink; every log_set_global_logger call other than the
\* winning one reaches the fatal assertion and leaves the installed sink in
\* place; log_get_scope_logger, called after the installation on a thread
\* without an override, returns the installed sink.
C4_WriteOnce ==
  /\ [][global_logger # null => global_logger' = global_logger]_vars
  /\ [](/\ rHist.lostSet # {} => crashed
        /\ rHist.setGlobalCalls - Cardinality(rHist.lostSet) <= 1
        /\ (rHist.setGlobalCalls > 0) = (global_logger # null)
        /\ (rHist.got.installed /\ rHist.got.noOverride)
              => rHist.got.value = global_logger)

\* C4's case: a second log_set_global_logger has reached the assertion,
\* and a thread without an override has read the installed sink.
C4_Witness ==
  /\ crashed /\ rHist.lostSet # {}
  /\ rHist.got.installed /\ rHist.got.noOverride
  /\ rHist.got.value = global_logger

\* C5: a log_log_impl call made while an earlier call of the same thread
\* is still executing returns without delivering its record to any sink,
\* and the outer record is still delivered exactly once, to the effective
\* sink.
C5_Reentrancy ==
  /\ \A r \in rHist.nested :
        /\ r \in rHist.returned /\ ~InSink(r)
        /\ \A s \in Sinks : Delivered(r, s) = 0
  /\ \A r \in rHist.hadNested :
        /\ r \notin rHist.nested
        /\ \A s \in Sinks : Delivered(r, s) <= (IF s = rHist.expect[r] THEN 1 ELSE 0)
        /\ r \in rHist.returned => Delivered(r, rHist.expect[r]) = 1

\* C5's case: a call with a nested call inside it has returned.
C5_Witness ==
  \E r \in rHist.hadNested : r \in rHist.returned /\ rHist.nested # {}

\* C8: a non-nested log call delivers its record to exactly one sink, the
\* thread's override if one is set and the global sink otherwise; with
\* neither, the call returns at once, delivers nothing then or later, keeps
\* nothing for a replay and does not fail.
C8_EffectiveSink ==
  /\ \A r \in (1..Len(issued)) \ rHist.nested :
        IF rHist.expect[r] = null
          THEN /\ r \in rHist.returned /\ ~InSink(r)
               /\ \A s \in Sinks : Delivered(r, s) = 0
          ELSE /\ \A s \in Sinks \ {rHist.expect[r]} : Delivered(r, s) = 0
               /\ Delivered(r, rHist.expect[r]) <= 1
               /\ r \in rHist.returned => Delivered(r, rHist.expect[r]) = 1
               /\ r \notin rHist.returned => InSink(r)
  /\ crashed => rHist.lostSet # {}

\* C8's case: with the global sink installed, a call of a thread with an
\* override and a call of a thread without one have returned.
C8_Witness ==
  \E r2 \in rHist.returned \ rHist.nested, r3 \in rHist.returned \ rHist.nested :
    /\ global_logger # null
    /\ rHist.expect[r2] = global_logger /\ rHist.override[issued[r2]] = null
    /\ rHist.expect[r3] # null /\ rHist.expect[r3] # global_logger
    /\ rHist.override[issued[r3]] = rHist.expect[r3]
    /\ Delivered(r2, global_logger) = 1 /\ Delivered(r3, rHist.expect[r3]) = 1

\* C10: a message that does not fit the line buffer is delivered cut to
\* fit: the record reaches the effective sink once, its line is the prefix
\* followed by the first characters of the message, the line is never
\* longer than the capacity minus one, and the next record is delivered
\* with its own line.
C10_Truncation ==
  /\ \A r \in rHist.returned \ rHist.nested :
        rHist.expect[r] # null => Delivered(r, rHist.expect[r]) = 1
  /\ \A s \in Sinks : \A i \in 1..Len(observed[s]) :
        LET m == rHist.msg[observed[s][i].id]
            room == LineCap - 1 - Len(Prefix)
        IN  /\ Len(observed[s][i].line) <= LineCap - 1
            /\ observed[s][i].line = Prefix \o SubSeq(m, 1, Min(Len(m), room))

\* C11: with the worker and the calling threads scheduled fairly, a call
\* of CLoggerAsync::GlobalFinish eventually returns; when it has returned
\* the worker has exited, every record whose Log call returned before
\* GlobalFinish was called is in the stream, once, the write queue holds
\* nothing of these records (and nothing at all unless a Log call ran
\* during or after GlobalFinish), and the stream is closed exactly when the
\* sink was created with Close = true.
C11_FinishDrains ==
  /\ (aHist.finishCalls > 0) ~> aHist.finishReturned
  /\ [](aHist.finishReturned =>
          /\ aio.done
          /\ stream = Render(StreamRecords)
          /\ \A r \in aHist.atFinish : Count(r, StreamRecords) = 1
          /\ \A i \in 1..Len(aio.queue) :
                IsLine(aio.queue[i]) => aio.queue[i][2] \notin aHist.atFinish
          /\ ~aHist.late => aio.queue = <<>>
          /\ aio.closed = aConf.m_Close)

\* C11's case: GlobalFinish of a sink created with Close = true has
\* returned after a Log call had returned, and the stream is closed.
C11_Witness ==
  /\ aHist.finishReturned /\ aConf.m_Close /\ aio.closed
  /\ aHist.atFinish # {}

\* The process has exited normally: the hooks have run and no fatal
\* assertion was reached.
Exited == ~crashed /\ Exiting /\ env.hooksLeft = 0

\* C12: when the global sink is installed (by the one successful
\* log_set_global_logger call) exactly one exit hook is registered, and
\* none otherwise; at normal process exit the installed sink's GlobalFinish
\* has been invoked exactly once and no other sink's; the hook never runs
\* while global_logger is unset.
C12_ShutdownHook ==
  /\ env.atexit <= 1
  /\ global_logger = null => env.atexit = 0
  /\ (global_logger # null /\ \A t \in Threads : pc[t] # "setglobal_atexit") => env.atexit = 1
  /\ rHist.hooksRun <= env.atexit
  /\ rHist.hooksRun > 0 => global_logger # null
  /\ \A s \in Sinks : finished[s] = (IF s = global_logger THEN rHist.hooksRun ELSE 0)
  /\ (Exited /\ global_logger # null) => finished[global_logger] = 1

\* C12's case: the process has exited normally with a global sink
\* installed, which has received records and its GlobalFinish.
C12_Witness ==
  /\ Exited /\ global_logger # null
  /\ finished[global_logger] = 1 /\ Len(observed[global_logger]) >= 1

\* C13: two records r1, r2 that one thread passes to CFutureLogger::Log,
\* r1 first, are observed by the real sink in that order, also when Set
\* runs concurrently on another thread, so that r1 was buffered and r2 was
\* forwarded directly.
C13_EmissionOrder ==
  m_pLogger # null =>
    \A r1 \in Range(observed[m_pLogger]), r2 \in Range(observed[m_pLogger]) :
      (issued[r1] = issued[r2] /\ r1 < r2)
         => Pos(r1, observed[m_pLogger]) < Pos(r2, observed[m_pLogger])

\* C14: once CFutureLogger::Set has returned, the pending buffer is empty
\* and stays empty, and no Log call holds the pending lock or appends to
\* the buffer, whatever the interleaving of the Log calls with Set.
C14_BufferEmptyAfterAttach ==
  fHist.setReturned > 0 =>
    /\ m_aPending = <<>>
    /\ \A t \in Threads : pc[t] \notin {"log_push", "log_unlock"}

\* What the Log call in progress on thread t has appended to the queue.
AppendedBy(t) ==
  LET b == BlockOf(aLocal[t].rec)
  IN  IF pc[t] = "alog_unlock" THEN b
      ELSE IF pc[t] = "alog_nl" THEN SubSeq(b, 1, Len(b) - 1)
      ELSE IF pc[t] = "alog_line" THEN SubSeq(b, 1, Len(b) - 2)
      ELSE <<>>
\* The threads whose Log call is between aio_lock and aio_unlock.
InBlock == {t \in Threads : pc[t] \in {"alog_ansi", "alog_line", "alog_nl", "alog_unlock"}}

\* C15: the writes CLoggerAsync::Log makes for one record (the escape
\* sequence with m_AnsiTruecolor, the line, the newline) are appended to the
\* write queue as one contiguous block while the lock is held: what was
\* appended so far is the whole blocks of the records in the order their
\* Log calls got the lock, followed by the part of the block of the one call
\* holding the lock; the stream holds whole blocks only, in that order.
C15_RecordAtomicity ==
  LET L == aHist.lockOrder
      whole == IF InBlock = {} THEN L ELSE SubSeq(L, 1, Len(L) - 1)
  IN  /\ Cardinality(InBlock) <= 1
      /\ \A t \in InBlock : aio.lock = {t} /\ L[Len(L)] = aLocal[t].rec
      /\ InBlock = {} =>  stream \o aio.queue = Render(whole)
      /\ \A t \in InBlock : stream \o aio.queue = Render(whole) \o AppendedBy(t)
      /\ stream = Render(StreamRecords)
      /\ StreamRecords = SubSeq(L, 1, Len(StreamRecords))

\* C15's case: with escape sequences written, two threads' Log calls got
\* the lock in the other order than they were called, and the stream holds
\* the two records in lock order.
C15_Witness ==
  /\ aConf.m_AnsiTruecolor
  /\ Len(StreamRecords) >= 2
  /\ StreamRecords[1] > StreamRecords[2]
  /\ issued[StreamRecords[1]] # issued[StreamRecords[2]]

\* C16: after a thread that had the override X has called
\* log_set_scope_logger(nullptr), each later (non-nested) log call it makes
\* without an override delivers its record to the global sink if one was
\* installed when the call was made, also when it was installed after the
\* clear, and to no sink otherwise; X, unless it is the global sink itself,
\* receives no further record of the thread.  (rHist.expect[r] is the
\* override the thread had set when it issued r or, without one, what
\* global_logger held.)
C16_ClearFallsBack ==
  \A r0 \in 1..Len(issued) : \A r \in (r0 + 1)..Len(issued) :
    (/\ issued[r0] = issued[r] /\ r \notin rHist.nested
     /\ rHist.expect[r0] \notin {null, global_logger}
     /\ rHist.expect[r] \in {null, global_logger})
      => /\ Delivered(r, rHist.expect[r0]) = 0
         /\ (r \in rHist.returned /\ rHist.expect[r] # null) => Delivered(r, global_logger) = 1
         /\ rHist.expect[r] = null => \A s \in Sinks : Delivered(r, s) = 0

\* C16's case: a thread logged to its override X and cleared the
\* override, and its next call has delivered its record to the global sink.
C16_Witness ==
  \E r0 \in rHist.returned, r \in rHist.returned :
    /\ r0 < r /\ issued[r0] = issued[r]
    /\ rHist.expect[r0] \notin {null, global_logger}
    /\ Delivered(r0, rHist.expect[r0]) = 1
    /\ rHist.override[issued[r]] = null
    /\ global_logger # null /\ rHist.expect[r] = global_logger
    /\ Delivered(r, global_logger) = 1

FinishPending == {t \in Threads : pc[t] = "finish_test" /\ fLocal[t].logger # null}
\* The Log calls that are about to buffer their record.
Buffering(r) == \E t \in Threads : pc[t] \in {"log_lock", "log_push"} /\ fLocal[t].rec = r

\* C18: a CFutureLogger::GlobalFinish call that finds a sink attached
\* calls that sink's GlobalFinish exactly once, and no other sink's; a call
\* that finds none attached calls no sink; and while no sink is attached,
\* whatever GlobalFinish calls were made, no sink has received a record or
\* a GlobalFinish and the pending buffer holds every record buffered so far
\* exactly once.
C18_DeferredFinish ==
  /\ \A s \in Sinks :
        finished[s] = (IF s = m_pLogger THEN fHist.finishAttached - Cardinality(FinishPending)
                       ELSE 0)
  /\ \A t \in FinishPending : fLocal[t].logger = m_pLogger
  /\ m_pLogger = null =>
        /\ fHist.finishAttached = 0
        /\ \A s \in Sinks : observed[s] = <<>>
        /\ \A r \in 1..Len(issued) :
              Count(r, m_aPending) = (IF Buffering(r) THEN 0 ELSE 1)

\* C18's case: a GlobalFinish call has returned while no sink was
\* attached, with a record in the pending buffer, which it left there.
C18_Witness ==
  /\ AllIdle /\ m_pLogger = null /\ fHist.setCalls = 0
  /\ fHist.finishCalls - fHist.finishAttached >= 1
  /\ Len(m_aPending) >= 1

\* C19: a thread's in_logger flag is set exactly while a log_log_impl
\* call of that thread is inside scope_logger->Log: it is false whenever no
\* call is executing on the thread, after every return path (the no-sink
\* path, and the dropped nested call, which leaves the outer call's flag
\* set); and the guard drops a call only when it is nested inside another
\* log call of the same thread.
C19_FlagReleased ==
  /\ \A t \in Threads :
        /\ in_logger[t] = (stack[t] # <<>>)
        /\ Idle(t) => ~in_logger[t]
        /\ Len(stack[t]) <= 1
  /\ rHist.dropped = rHist.nested
  /\ \A r \in rHist.dropped : \E r0 \in rHist.hadNested : issued[r0] = issued[r] /\ r0 < r

\* C19's case: a nested call of a thread was dropped without a delivery,
\* the outer call has delivered its record and has returned, and the
\* thread's flag is released.
C19_Witness ==
  \E t1 \in Threads : \E r \in rHist.dropped :
    /\ issued[r] = t1 /\ r \in rHist.returned
    /\ \E r0 \in rHist.hadNested \cap rHist.returned :
          issued[r0] = t1 /\ Delivered(r0, rHist.expect[r0]) = 1
    /\ Idle(t1) /\ ~in_logger[t1]
    /\ \A s \in Sinks : Delivered(r, s) = 0

\* C20: the absence of a sink is never cached.  A thread without an
\* override has its scope_logger either unset or equal to global_logger
\* (and a thread with an override has the override); and a call of a thread
\* whose earlier call found no sink, made when the global sink is installed
\* and the thread has no override, delivers its record to the global sink.
C20_AbsenceNotCached ==
  /\ \A t \in Threads :
        /\ rHist.override[t] = null => scope_logger[t] \in {null, global_logger}
        /\ rHist.override[t] # null => scope_logger[t] = rHist.override[t]
  /\ \A r0 \in 1..Len(issued) : \A r \in (r0 + 1)..Len(issued) :
        (/\ issued[r0] = issued[r] /\ rHist.expect[r0] = null
         /\ r \notin rHist.nested
         /\ rHist.expect[r] # null /\ rHist.expect[r] = global_logger)
          => /\ r \in rHist.returned => Delivered(r, global_logger) = 1
             /\ r \notin rHist.returned => InSink(r)

\* C20's case: a thread that never had an override logged while no
\* global sink was installed, and its next call, after the installation,
\* has delivered its record to the global sink, which the thread now
\* caches.
C20_Witness ==
  \E r0 \in rHist.returned, r \in rHist.returned :
    /\ r0 < r /\ issued[r0] = issued[r]
    /\ rHist.expect[r0] = null /\ rHist.scopeCalls = 0
    /\ global_logger # null /\ Delivered(r, global_logger) = 1
    /\ scope_logger[issued[r]] = global_logger

====
